---- MODULE Spec2Model ----
(***************************************************************************)
(* A model of the markdown extraction engine of coach-ai (src/main.go).    *)
(*                                                                         *)
(* A Go string is modelled as the sequence of its bytes, each byte a       *)
(* one-character TLA+ string; the two bytes of the UTF-8 copyright sign    *)
(* are the tokens "<C2>" and "<A9>".  Indexes returned by Index are Go's   *)
(* 0-based offsets (-1: absent), so that every comparison reads as in the  *)
(* source; s[a:b] of the source is SubSeq(s, a+1, b).                      *)
(***************************************************************************)
EXTENDS Integers, Sequences, FiniteSets, TLC

VARIABLES
    input,           \* the pieces the document was put together from (ghost)
    markdown,        \* the markdown text handed to the function under check
    pc,              \* position in the function under check
    lines,           \* parseAbilities: lines of the bounded section
    imageMap,        \* parseAbilities: ordinal -> raw image target
    i,               \* parseAbilities: index of the outer walk (0-based)
    abilityIndex,    \* parseAbilities: the slot counter
    seenLargeImage,  \* parseAbilities: flag of the outer walk
    abilities,       \* parseAbilities: the result so far
    origins,         \* per ability, the section lines it was read from (ghost)
    last,            \* the branch the last step took (ghost)
    matches,         \* extractImages: the regexp matches (raw targets)
    mi,              \* extractImages: index of the loop over matches (0-based)
    images,          \* extractImages: the result so far
    seen,            \* extractImages: the set of raw targets seen
    role,            \* extractRole: the result
    desc,            \* cleanDescription: the description being cleaned
    pi               \* cleanDescription: index of the loop over footerPatterns

vars == <<input, markdown, pc, lines, imageMap, i, abilityIndex, seenLargeImage,
          abilities, origins, last, matches, mi, images, seen, role, desc, pi>>

abilityVars == <<lines, imageMap, i, abilityIndex, seenLargeImage, abilities, origins>>
imageVars == <<matches, mi, images, seen>>
cleanVars == <<desc, pi>>

-----------------------------------------------------------------------------
(* Bytes and the strings package.                                          *)

LowerLetters == <<"a","b","c","d","e","f","g","h","i","j","k","l","m","n","o","p","q","r","s","t","u","v","w","x","y","z">>
UpperLetters == <<"A","B","C","D","E","F","G","H","I","J","K","L","M","N","O","P","Q","R","S","T","U","V","W","X","Y","Z">>
Digits == <<"0","1","2","3","4","5","6","7","8","9">>
NonAscii == {"<C2>", "<A9>"}
NL == "\n"

\* every byte a text of the model is made of
Alphabet ==
    {LowerLetters[k] : k \in 1..26} \cup {UpperLetters[k] : k \in 1..26}
    \cup {Digits[k] : k \in 1..10} \cup NonAscii
    \cup {" ", "\t", "\n", "\r", "!", "#", "%", "&", "(", ")", "-", ".", "/", ":", "[", "]", "_"}

PosIn(alpha, c) ==
    IF \E k \in 1..Len(alpha) : alpha[k] = c
    THEN CHOOSE k \in 1..Len(alpha) : alpha[k] = c
    ELSE 0

Min(set) == CHOOSE x \in set : \A y \in set : x <= y

\* unicode.ToUpper / unicode.ToLower, byte by byte
UpperOf ==
    [c \in Alphabet |->
        LET k == PosIn(LowerLetters, c) IN IF k = 0 THEN c ELSE UpperLetters[k]]
LowerOf ==
    [c \in Alphabet |->
        LET k == PosIn(UpperLetters, c) IN IF k = 0 THEN c ELSE LowerLetters[k]]
IsUpperLetter == [c \in Alphabet |-> PosIn(UpperLetters, c) # 0]
IsDigit == [c \in Alphabet |-> PosIn(Digits, c) # 0]

ToUpperCh(c) == UpperOf[c]
ToLowerCh(c) == LowerOf[c]

\* strings.ToUpper / strings.ToLower on valid UTF-8 text.
ToUpper(s) == [k \in 1..Len(s) |-> ToUpperCh(s[k])]
ToLower(s) == [k \in 1..Len(s) |-> ToLowerCh(s[k])]

\* strings.ToUpper(line[:1]) == line[:1].  line[:1] is one byte; a lone lead
\* byte of a multi-byte rune is invalid UTF-8, which ToUpper replaces by
\* U+FFFD, so the comparison fails for it.
FirstByteIsUpper(s) == s[1] \notin NonAscii /\ ToUpperCh(s[1]) = s[1]

\* unicode.IsSpace on the bytes of the model; regexp \s is the same set here.
IsSpace(c) == c \in {" ", "\t", "\n", "\r"}

RECURSIVE TrimLeft(_)
TrimLeft(s) == IF s # <<>> /\ IsSpace(Head(s)) THEN TrimLeft(Tail(s)) ELSE s
RECURSIVE TrimRight(_)
TrimRight(s) ==
    IF s # <<>> /\ IsSpace(s[Len(s)]) THEN TrimRight(SubSeq(s, 1, Len(s) - 1)) ELSE s
TrimSpace(s) == TrimRight(TrimLeft(s))

HasPrefix(s, p) == Len(s) >= Len(p) /\ \A k \in 1..Len(p) : s[k] = p[k]

\* sub occurs in s at 0-based offset k
OccursAt(s, sub, k) == k + Len(sub) <= Len(s) /\ \A t \in 1..Len(sub) : s[k + t] = sub[t]

\* the least offset >= k at which the non-empty sub occurs in s (-1: none)
IndexFrom(s, sub, k) ==
    LET hits == {m \in k..(Len(s) - Len(sub)) : s[m + 1] = sub[1] /\ OccursAt(s, sub, m)} IN
    IF hits = {} THEN -1 ELSE Min(hits)

\* strings.Index
Index(s, sub) == IndexFrom(s, sub, 0)
Contains(s, sub) == Index(s, sub) # -1
Count(s, c) == Cardinality({k \in 1..Len(s) : s[k] = c})

RECURSIVE Ascending(_)
Ascending(set) ==
    IF set = {} THEN <<>> ELSE <<Min(set)>> \o Ascending(set \ {Min(set)})

\* strings.Split(s, "\n"): the pieces between the newlines of s
Split(s) ==
    LET nl == Ascending({k \in 1..Len(s) : s[k] = NL}) IN
    [j \in 1..(Len(nl) + 1) |->
        SubSeq(s, IF j = 1 THEN 1 ELSE nl[j - 1] + 1,
                  IF j = Len(nl) + 1 THEN Len(s) ELSE nl[j] - 1)]

\* strings.Join(parts, sep)
RECURSIVE Join(_, _)
Join(parts, sep) ==
    IF parts = <<>> THEN <<>>
    ELSE IF Len(parts) = 1 THEN parts[1]
    ELSE parts[1] \o sep \o Join(Tail(parts), sep)

\* strings.Fields(s)
RECURSIVE Fields(_)
Fields(s) ==
    LET t == TrimLeft(s) IN
    IF t = <<>> THEN <<>>
    ELSE LET ends == {k \in 1..Len(t) : IsSpace(t[k])}
             e == IF ends = {} THEN Len(t) + 1 ELSE CHOOSE k \in ends : \A m \in ends : k <= m
         IN <<SubSeq(t, 1, e - 1)>> \o Fields(SubSeq(t, e, Len(t)))

\* fmt.Sscanf(digits, "%d", &num)
RECURSIVE Atoi(_)
Atoi(ds) == IF ds = <<>> THEN 0 ELSE 10 * Atoi(SubSeq(ds, 1, Len(ds) - 1)) + (PosIn(Digits, ds[Len(ds)]) - 1)

\* a map lookup: the zero value "" for an absent key
MapGet(m, k) == IF k \in DOMAIN m THEN m[k] ELSE <<>>
MapPut(m, k, v) == [x \in (DOMAIN m) \cup {k} |-> IF x = k THEN v ELSE m[x]]

-----------------------------------------------------------------------------
(* urlEncode: url.Parse followed by URL.String.  On the targets of the     *)
(* model (scheme://host/path, no userinfo, query or fragment) Parse fails  *)
(* on a % that does not start a two-digit hex escape, lower-cases the      *)
(* scheme, and String writes a space of the path as %20.                   *)

HexDigits == <<"0","1","2","3","4","5","6","7","8","9","a","b","c","d","e","f","A","B","C","D","E","F">>
IsHex(c) == PosIn(HexDigits, c) # 0

BadEscape(s) ==
    \E k \in 1..Len(s) :
        s[k] = "%" /\ ~(k + 2 <= Len(s) /\ IsHex(s[k + 1]) /\ IsHex(s[k + 2]))

RECURSIVE EscapePath(_)
EscapePath(s) ==
    LET p == Index(s, <<" ">>) IN
    IF p = -1 THEN s
    ELSE SubSeq(s, 1, p) \o <<"%","2","0">> \o EscapePath(SubSeq(s, p + 2, Len(s)))

urlEncode(rawURL) ==
    IF BadEscape(rawURL) THEN rawURL
    ELSE LET c == Index(rawURL, <<":">>) IN
         IF c <= 0 THEN EscapePath(rawURL)
         ELSE ToLower(SubSeq(rawURL, 1, c)) \o EscapePath(SubSeq(rawURL, c + 1, Len(rawURL)))

-----------------------------------------------------------------------------
(* Regular expressions of the source, matched as Go's regexp matches them  *)
(* (leftmost match, greedy and lazy operators as written).                 *)

NoMatch == [found |-> FALSE]

\* the least offset q >= k at which sub occurs with no newline in s[k:q]
\* (-1: none): where a lazy .*? followed by sub stops
FindOnLine(s, sub, k) ==
    LET q == IndexFrom(s, sub, k)
        eol == IndexFrom(s, <<NL>>, k)
    IN IF q # -1 /\ (eol = -1 \/ q < eol) THEN q ELSE -1

\* !\[.*?\]\((.*?)\) matched with its "!" at offset p
ImageAt(s, p) ==
    IF ~OccursAt(s, <<"!","[">>, p) THEN NoMatch
    ELSE LET q == FindOnLine(s, <<"]","(">>, p + 2) IN
         IF q = -1 THEN NoMatch
         ELSE LET r == FindOnLine(s, <<")">>, q + 2) IN
              IF r = -1 THEN NoMatch
              ELSE [found |-> TRUE, end |-> r + 1, target |-> SubSeq(s, q + 3, r)]

RECURSIVE DigitRun(_, _)
DigitRun(s, p) == IF p < Len(s) /\ IsDigit[s[p + 1]] THEN 1 + DigitRun(s, p + 1) ELSE 0
RECURSIVE SpaceRun(_, _)
SpaceRun(s, p) == IF p < Len(s) /\ IsSpace(s[p + 1]) THEN 1 + SpaceRun(s, p + 1) ELSE 0

AtLineStart(s, p) == p = 0 \/ s[p] = NL

\* abilityImageRe = (?m)^(\d+)\.\s*!\[.*?\]\((.*?)\) matched at offset p
AbilityImageAt(s, p) ==
    LET d == DigitRun(s, p) IN
    IF ~AtLineStart(s, p) \/ d = 0 \/ ~OccursAt(s, <<".">>, p + d) THEN NoMatch
    ELSE LET m == ImageAt(s, p + d + 1 + SpaceRun(s, p + d + 1)) IN
         IF ~m.found THEN NoMatch
         ELSE [found |-> TRUE, end |-> m.end, num |-> SubSeq(s, p + 1, p + d), target |-> m.target]

\* abilityImageRe.FindAllStringSubmatch(s, -1), from offset p on
RECURSIVE AbilityImageMatches(_, _)
AbilityImageMatches(s, p) ==
    LET hits == {q \in p..(Len(s) - 1) : AbilityImageAt(s, q).found} IN
    IF hits = {} THEN <<>>
    ELSE LET m == AbilityImageAt(s, Min(hits)) IN <<m>> \o AbilityImageMatches(s, m.end)

\* abilityImageRe.MatchString(line), line holding no newline
AbilityImageMatchString(line) == AbilityImageAt(line, 0).found

\* re.FindAllStringSubmatch(markdown, -1) of extractImages: the targets
RECURSIVE ImageMatches(_, _)
ImageMatches(s, p) ==
    LET hits == {q \in p..(Len(s) - 1) : ImageAt(s, q).found} IN
    IF hits = {} THEN <<>>
    ELSE LET m == ImageAt(s, Min(hits)) IN <<m.target>> \o ImageMatches(s, m.end)

-----------------------------------------------------------------------------
(* cleanDescription                                                         *)


\* linkRe = \[([^\]]+)\]\([^\)]+\) matched with its "[" at offset p
LinkAt(s, p) ==
    IF ~OccursAt(s, <<"[">>, p) THEN NoMatch
    ELSE LET q == IndexFrom(s, <<"]">>, p + 1) IN
         IF q = -1 \/ q = p + 1 \/ ~OccursAt(s, <<"(">>, q + 1) THEN NoMatch
         ELSE LET r == IndexFrom(s, <<")">>, q + 2) IN
              IF r = -1 \/ r = q + 2 THEN NoMatch
              ELSE [found |-> TRUE, end |-> r + 1, label |-> SubSeq(s, p + 2, q)]

\* linkRe.ReplaceAllString(desc, "$1")
RECURSIVE StripLinks(_)
StripLinks(s) ==
    LET hits == {p \in 0..(Len(s) - 1) : LinkAt(s, p).found} IN
    IF hits = {} THEN s
    ELSE LET p == Min(hits)
             m == LinkAt(s, p)
         IN SubSeq(s, 1, p) \o m.label \o StripLinks(SubSeq(s, m.end + 1, Len(s)))

\* imageRe.ReplaceAllString(desc, "")
RECURSIVE StripImages(_)
StripImages(s) ==
    LET hits == {p \in 0..(Len(s) - 1) : ImageAt(s, p).found} IN
    IF hits = {} THEN s
    ELSE LET p == Min(hits)
             m == ImageAt(s, p)
         IN SubSeq(s, 1, p) \o StripImages(SubSeq(s, m.end + 1, Len(s)))

\* regexp \s+ replaced by " "
RECURSIVE CollapseSpace(_)
CollapseSpace(s) ==
    LET hits == {p \in 0..(Len(s) - 1) : IsSpace(s[p + 1])} IN
    IF hits = {} THEN s
    ELSE LET p == Min(hits) IN
         SubSeq(s, 1, p) \o <<" ">> \o CollapseSpace(SubSeq(s, p + SpaceRun(s, p) + 1, Len(s)))

\* lines 355-365: links, images, whitespace, trim
StripMarkup(d) == TrimSpace(CollapseSpace(StripImages(StripLinks(d))))

\* footerPatterns of cleanDescription
CleanFooterPatterns == <<
    <<"D","o","w","n","l","o","a","d"," ","R","i","o","t"," ","M","o","b","i","l","e"," ","C","o","m","p","a","n","i","o","n"," ","A","p","p">>,
    <<"T","w","i","t","t","e","r">>, <<"Y","o","u","T","u","b","e">>, <<"I","n","s","t","a","g","r","a","m">>, <<"T","i","k","T","o","k">>, <<"F","a","c","e","b","o","o","k">>, <<"D","i","s","c","o","r","d">>,
    <<"R","i","o","t"," ","G","a","m","e","s">>,
    <<"<C2>","<A9>"," ","2","0","2","0","-","2","0","2","5"," ","R","i","o","t"," ","G","a","m","e","s">>,
    <<"P","r","i","v","a","c","y"," ","N","o","t","i","c","e">>,
    <<"T","e","r","m","s"," ","o","f"," ","S","e","r","v","i","c","e">>,
    <<"E","S","R","B">>,
    <<"B","l","o","o","d">>, <<"L","a","n","g","u","a","g","e">>, <<"V","i","o","l","e","n","c","e">>, <<"U","s","e","r","s"," ","I","n","t","e","r","a","c","t">>, <<"I","n","-","G","a","m","e"," ","P","u","r","c","h","a","s","e","s">>,
    <<"C","h","e","c","k"," ","S","e","s","s","i","o","n"," ","I","F","r","a","m","e">>,
    <<"O","I","D","C"," ","O","P"," ","I","f","r","a","m","e">>,
    <<"A","u","t","h"," ","E","r","r","o","r">> >>

\* the cut of one pattern is made only for idx > 0
CutWanted(idx) == idx > 0

\* one iteration of the loop over footerPatterns (lines 382-390)
CutAtPattern(d, pattern) ==
    LET idx == Index(d, pattern) IN
    IF idx # -1 /\ CutWanted(idx) THEN SubSeq(d, 1, idx) ELSE d

\* the loop of lines 382-390 from pattern k on (an empty description holds
\* no pattern, so nothing is left to cut)
RECURSIVE CutFrom(_, _)
CutFrom(d, k) ==
    IF k > Len(CleanFooterPatterns) \/ d = <<>> THEN d
    ELSE CutFrom(CutAtPattern(d, CleanFooterPatterns[k]), k + 1)

cleanDescription(d) == TrimSpace(CutFrom(StripMarkup(d), 1))

-----------------------------------------------------------------------------
(* parseAbilities                                                           *)

Heading == <<"#","#"," ","S","P","E","C","I","A","L"," ","A","B","I","L","I","T","I","E","S">>

\* footerPatterns of parseAbilities
FooterPatterns == <<
    <<"\n","-"," ","[","D","o","w","n","l","o","a","d"," ","R","i","o","t"," ","M","o","b","i","l","e"," ","C","o","m","p","a","n","i","o","n"," ","A","p","p","]">>,
    <<"\n","[","R","i","o","t"," ","G","a","m","e","s","]">>,
    <<"\n","<C2>","<A9>"," ","2","0","2","0","-","2","0","2","5">> >>

RECURSIVE FooterScan(_, _, _)
FooterScan(section, k, footerStart) ==
    IF k > Len(FooterPatterns) THEN footerStart
    ELSE LET idx == Index(section, FooterPatterns[k]) IN
         FooterScan(section, k + 1, IF idx # -1 /\ idx < footerStart THEN idx ELSE footerStart)

FooterStartUncut(section) == Len(section)

\* lines 178-188
FooterStart(section) == FooterScan(section, 1, Len(section))

\* lines 169-189: the bounded section, given that the heading occurs
AbilitiesSection(md) ==
    LET rest == SubSeq(md, Index(md, Heading) + 1, Len(md)) IN
    SubSeq(rest, 1, FooterStart(rest))

\* lines 196-203
RECURSIVE BuildImageMap(_, _)
BuildImageMap(ms, m) ==
    IF ms = <<>> THEN m
    ELSE BuildImageMap(Tail(ms), MapPut(m, Atoi(Head(ms).num), Head(ms).target))

\* lines 213-218
NumberedImagesEnd(ls) ==
    LET hits == {k \in 1..Len(ls) : AbilityImageMatchString(ls[k])} IN
    IF hits = {} THEN 0 ELSE CHOOSE k \in hits : \A m \in hits : m <= k

\* allWordsTitleCase (lines 337-351)
allWordsTitleCase(s) ==
    LET words == Fields(s) IN
    \A k \in 1..Len(words) : IsUpperLetter[words[k][1]]

\* lines 237 and 277
IsAllCaps(line) == ToUpper(line) = line /\ Len(line) > 0

\* the second disjunct of isTitleCase: the rest of the line is lower-case
RestIsLower(line) == ToLower(Tail(line)) = Tail(line)

\* lines 238-241 and 278-281
IsTitleCase(line) ==
    /\ Len(line) > 0
    /\ FirstByteIsUpper(line)
    /\ \/ Len(line) = 1
       \/ RestIsLower(line)
       \/ (Count(line, " ") <= 3 /\ allWordsTitleCase(line))

MinNameLen == 3
MaxNameLen == 50
MaxNameSpaces == 3
MaxAbilities == 4

\* lines 243-247
IsCandidateName(seenLarge, line) ==
    /\ seenLarge
    /\ Len(line) > MinNameLen
    /\ Len(line) < MaxNameLen
    /\ (IsAllCaps(line) \/ IsTitleCase(line))
    /\ Count(line, " ") <= MaxNameSpaces

skipWords == <<
    <<"R","O","L","E">>, <<"S","P","E","C","I","A","L">>, <<"A","B","I","L","I","T","I","E","S">>, <<"B","L","O","O","D">>, <<"L","A","N","G","U","A","G","E">>, <<"V","I","O","L","E","N","C","E">>,
    <<"U","S","E","R","S">>, <<"I","N","T","E","R","A","C","T">>, <<"P","U","R","C","H","A","S","E","S">>, <<"D","o","w","n","l","o","a","d">>, <<"T","w","i","t","t","e","r">>, <<"Y","o","u","T","u","b","e">>,
    <<"I","n","s","t","a","g","r","a","m">>, <<"T","i","k","T","o","k">>, <<"F","a","c","e","b","o","o","k">>, <<"D","i","s","c","o","r","d">>, <<"R","i","o","t">>, <<"G","a","m","e","s">>,
    <<"P","r","i","v","a","c","y">>, <<"N","o","t","i","c","e">>, <<"T","e","r","m","s">>, <<"S","e","r","v","i","c","e">>, <<"E","S","R","B">>, <<"C","h","e","c","k">>,
    <<"S","e","s","s","i","o","n">>, <<"I","F","r","a","m","e">>, <<"O","I","D","C">>, <<"O","P">>, <<"A","u","t","h">>, <<"E","r","r","o","r">> >>

skipWordsUpper == [k \in 1..Len(skipWords) |-> ToUpper(skipWords[k])]

IsSkipWordExact(line) ==
    LET lineUpper == ToUpper(line) IN \E k \in 1..Len(skipWords) : lineUpper = skipWords[k]

\* lines 250-258
IsSkipWord(line) ==
    LET lineUpper == ToUpper(line) IN
    \E k \in 1..Len(skipWords) : lineUpper = skipWordsUpper[k]

\* lines 272-285: the line looks like the next ability name
LooksLikeNextName(nextLine) ==
    /\ nextLine # <<>>
    /\ ~HasPrefix(nextLine, <<"!">>)
    /\ ~HasPrefix(nextLine, <<"-">>)
    /\ ~HasPrefix(nextLine, <<"[">>)
    /\ Len(nextLine) > MinNameLen
    /\ Len(nextLine) < MaxNameLen
    /\ (IsAllCaps(nextLine) \/ IsTitleCase(nextLine))

\* lines 288-290
HitsFooter(nextLine) ==
    \/ Contains(nextLine, <<"D","o","w","n","l","o","a","d"," ","R","i","o","t">>)
    \/ Contains(nextLine, <<"R","i","o","t"," ","G","a","m","e","s">>)
    \/ Contains(nextLine, <<"<C2>","<A9>"," ","2","0","2","0">>)

\* lines 268-297: the 0-based indexes of the lines appended to descriptionLines,
\* in order, scanning from index j
RECURSIVE DescriptionIndexes(_, _)
DescriptionIndexes(ls, j) ==
    IF j >= Len(ls) THEN <<>>
    ELSE LET nextLine == TrimSpace(ls[j + 1]) IN
         IF LooksLikeNextName(nextLine) \/ HitsFooter(nextLine) THEN <<>>
         ELSE IF nextLine # <<>> /\ ~HasPrefix(nextLine, <<"!">>)
              THEN <<j>> \o DescriptionIndexes(ls, j + 1)
              ELSE DescriptionIndexes(ls, j + 1)

\* lines 299-300
DescriptionOf(ls, idxs) ==
    cleanDescription(Join([k \in 1..Len(idxs) |-> TrimSpace(ls[idxs[k] + 1])], <<" ">>))

\* the test of line 304
HasImageFor(slot, m) == slot + 1 <= Cardinality(DOMAIN m)

\* lines 303-306
ImageFor(slot, m) == IF HasImageFor(slot, m) THEN urlEncode(MapGet(m, slot + 1)) ELSE <<>>

LoopGuardOffByOne(idx, slot, n) == idx < n /\ slot <= MaxAbilities

\* the loop condition of line 225
LoopGuard(idx, slot, n) == idx < n /\ slot < MaxAbilities

\* line 169-172: no section, the empty list is returned
NoSection ==
    /\ pc = "parseAbilities"
    /\ Index(markdown, Heading) = -1
    /\ pc' = "done"
    /\ last' = "nosection"
    /\ UNCHANGED <<input, markdown, abilityVars, imageVars, role, cleanVars>>

\* lines 169-223: bound the section, map the numbered images, split into lines
Locate ==
    /\ pc = "parseAbilities"
    /\ Index(markdown, Heading) # -1
    /\ LET abilitiesSection == AbilitiesSection(markdown)
           ls == Split(abilitiesSection)
       IN /\ lines' = ls
          /\ imageMap' = BuildImageMap(AbilityImageMatches(abilitiesSection, 0), <<>>)
          /\ i' = NumberedImagesEnd(ls)
    /\ abilityIndex' = 0
    /\ seenLargeImage' = FALSE
    /\ pc' = "walk"
    /\ last' = "locate"
    /\ UNCHANGED <<input, markdown, abilities, origins, imageVars, role, cleanVars>>

CurrentLine == TrimSpace(lines[i + 1])

InWalk == pc = "walk" /\ LoopGuard(i, abilityIndex, Len(lines))

\* the branch the body of the loop takes on a line (lines 229-261)
Branch(seenLarge, line) ==
    IF line = <<>> \/ HasPrefix(line, <<"!">>) THEN "skip"
    ELSE IF IsCandidateName(seenLarge, line)
         THEN (IF IsSkipWord(line) THEN "skipword" ELSE "name")
         ELSE "pass"

\* lines 229-234: an empty line or an image line
WalkSkip ==
    /\ InWalk
    /\ Branch(seenLargeImage, CurrentLine) = "skip"
    /\ seenLargeImage' = (seenLargeImage \/ HasPrefix(CurrentLine, <<"!">>))
    /\ i' = i + 1
    /\ last' = "skip"
    /\ UNCHANGED <<input, markdown, pc, lines, imageMap, abilityIndex, abilities, origins,
                   imageVars, role, cleanVars>>

\* the line is no candidate name: the walk moves on
WalkPass ==
    /\ InWalk
    /\ Branch(seenLargeImage, CurrentLine) = "pass"
    /\ i' = i + 1
    /\ last' = "pass"
    /\ UNCHANGED <<input, markdown, pc, lines, imageMap, abilityIndex, seenLargeImage,
                   abilities, origins, imageVars, role, cleanVars>>

\* lines 259-261: a candidate that is a skip word
WalkSkipWord ==
    /\ InWalk
    /\ Branch(seenLargeImage, CurrentLine) = "skipword"
    /\ i' = i + 1
    /\ last' = "skipword"
    /\ UNCHANGED <<input, markdown, pc, lines, imageMap, abilityIndex, seenLargeImage,
                   abilities, origins, imageVars, role, cleanVars>>

\* lines 263-314: an ability is appended
WalkEmit ==
    /\ InWalk
    /\ Branch(seenLargeImage, CurrentLine) = "name"
    /\ LET idxs == DescriptionIndexes(lines, i + 1) IN
       /\ abilities' = Append(abilities,
              [name |-> CurrentLine,
               description |-> DescriptionOf(lines, idxs),
               image |-> ImageFor(abilityIndex, imageMap)])
       /\ origins' = Append(origins,
              [nameLine |-> i, descLines |-> {idxs[k] : k \in 1..Len(idxs)}])
    /\ abilityIndex' = abilityIndex + 1
    /\ i' = i + 1
    /\ last' = "emit"
    /\ UNCHANGED <<input, markdown, pc, lines, imageMap, seenLargeImage, imageVars, role,
                   cleanVars>>

\* the loop of line 225 ends and abilities is returned
Return ==
    /\ pc = "walk"
    /\ ~LoopGuard(i, abilityIndex, Len(lines))
    /\ pc' = "done"
    /\ last' = "return"
    /\ UNCHANGED <<input, markdown, abilityVars, imageVars, role, cleanVars>>

-----------------------------------------------------------------------------
(* extractImages (lines 142-162)                                            *)

\* the key of the seen map (lines 152 and 156)
SeenKeyEncoded(rawURL) == urlEncode(rawURL)
SeenKey(rawURL) == rawURL

\* lines 143-147
FindImages ==
    /\ pc = "extractImages"
    /\ matches' = ImageMatches(markdown, 0)
    /\ mi' = 0
    /\ images' = <<>>
    /\ seen' = {}
    /\ pc' = "imageLoop"
    /\ last' = "find"
    /\ UNCHANGED <<input, markdown, abilityVars, role, cleanVars>>

CurrentRaw == TrimSpace(matches[mi + 1])

\* lines 152-157: a new non-empty target is normalized and appended
ImageAppend ==
    /\ pc = "imageLoop"
    /\ mi < Len(matches)
    /\ CurrentRaw # <<>>
    /\ SeenKey(CurrentRaw) \notin seen
    /\ images' = Append(images, urlEncode(CurrentRaw))
    /\ seen' = seen \cup {SeenKey(CurrentRaw)}
    /\ mi' = mi + 1
    /\ last' = "append"
    /\ UNCHANGED <<input, markdown, pc, matches, abilityVars, role, cleanVars>>

\* line 152 fails: an empty target, or one seen before
ImageSkip ==
    /\ pc = "imageLoop"
    /\ mi < Len(matches)
    /\ ~(CurrentRaw # <<>> /\ SeenKey(CurrentRaw) \notin seen)
    /\ mi' = mi + 1
    /\ last' = "drop"
    /\ UNCHANGED <<input, markdown, pc, matches, images, seen, abilityVars, role, cleanVars>>

\* line 161
ImageReturn ==
    /\ pc = "imageLoop"
    /\ mi >= Len(matches)
    /\ pc' = "done"
    /\ last' = "return"
    /\ UNCHANGED <<input, markdown, imageVars, abilityVars, role, cleanVars>>

-----------------------------------------------------------------------------
(* extractRole (lines 133-139)                                              *)

\* the end of the line offset p is on
LineEnd(s, p) == LET e == IndexFrom(s, <<NL>>, p) IN IF e = -1 THEN Len(s) ELSE e

RoleLabel == <<"R","O","L","E">>

\* (?m)^ROLE\s*\n\s*(.+)$ matched at offset p.  The two \s* share the run
\* of white space after the label, which must hold a newline; the second one
\* is greedy, so the capture starts at the first byte after the run and goes
\* to the end of its line.  When the run reaches the end of the text the
\* capture, if any, is white space only: TrimSpace makes it "", which is also
\* what extractRole returns without a match.
RoleAt(s, p) ==
    IF ~(AtLineStart(s, p) /\ OccursAt(s, RoleLabel, p)) THEN NoMatch
    ELSE LET from == p + Len(RoleLabel)
             e == from + SpaceRun(s, from)
         IN IF \A k \in (from + 1)..e : s[k] # NL THEN NoMatch
            ELSE IF e >= Len(s) THEN [found |-> TRUE, value |-> <<>>]
            ELSE [found |-> TRUE, value |-> SubSeq(s, e + 1, LineEnd(s, e))]

\* re.FindStringSubmatch(markdown): the capture of the leftmost match
RoleCapture(s) ==
    LET hits == {p \in 0..(Len(s) - 1) : RoleAt(s, p).found} IN
    IF hits = {} THEN NoMatch ELSE RoleAt(s, Min(hits))

extractRoleUntrimmed(md) == LET m == RoleCapture(md) IN IF m.found THEN m.value ELSE <<>>

extractRole(md) == LET m == RoleCapture(md) IN IF m.found THEN TrimSpace(m.value) ELSE <<>>

ExtractRole ==
    /\ pc = "extractRole"
    /\ role' = extractRole(markdown)
    /\ pc' = "done"
    /\ last' = "return"
    /\ UNCHANGED <<input, markdown, abilityVars, imageVars, cleanVars>>

-----------------------------------------------------------------------------
(* cleanDescription (lines 354-393), one step per iteration of its loop     *)

\* lines 355-365
CleanStart ==
    /\ pc = "cleanDescription"
    /\ desc' = StripMarkup(markdown)
    /\ pi' = 0
    /\ pc' = "cleanLoop"
    /\ last' = "strip"
    /\ UNCHANGED <<input, markdown, abilityVars, imageVars, role>>

CurrentPattern == CleanFooterPatterns[pi + 1]

\* lines 383-388: the pattern is found past the start and the text is cut
CleanCut ==
    /\ pc = "cleanLoop"
    /\ pi < Len(CleanFooterPatterns)
    /\ CutAtPattern(desc, CurrentPattern) # desc
    /\ desc' = CutAtPattern(desc, CurrentPattern)
    /\ pi' = pi + 1
    /\ last' = "cut"
    /\ UNCHANGED <<input, markdown, pc, abilityVars, imageVars, role>>

\* the pattern is absent, or found at offset 0: nothing changes
CleanKeep ==
    /\ pc = "cleanLoop"
    /\ pi < Len(CleanFooterPatterns)
    /\ CutAtPattern(desc, CurrentPattern) = desc
    /\ pi' = pi + 1
    /\ last' = "keep"
    /\ UNCHANGED <<input, markdown, pc, desc, abilityVars, imageVars, role>>

\* line 392
CleanReturn ==
    /\ pc = "cleanLoop"
    /\ pi >= Len(CleanFooterPatterns)
    /\ desc' = TrimSpace(desc)
    /\ pc' = "done"
    /\ last' = "return"
    /\ UNCHANGED <<input, markdown, pi, abilityVars, imageVars, role>>

-----------------------------------------------------------------------------
(* The documents the functions are run on.                                  *)

LargeImage == <<"!","[","b","i","g","]","(","h","t","t","p",":","/","/","x","/","b","i","g",".","p","n","g",")">>
NameCloudburst == <<"C","L","O","U","D","B","U","R","S","T">>
SentenceLine == <<"T","h","r","o","w","s"," ","a"," ","c","l","o","u","d",".">>
PlainLine == <<"b","u","r","n","s"," ","t","h","e"," ","F","o","e","s">>
DashLine == <<"-"," ","A","B","C","D">>
FooterLine == <<"<C2>","<A9>"," ","2","0","2","0","-","2","0","2","5"," ","R","i","o","t"," ","G","a","m","e","s">>
RiotLine == <<"[","R","i","o","t"," ","G","a","m","e","s","]">>
AuthLine == <<"A","U","T","H">>

RoleLine == <<"R","O","L","E">>

BodyPool == {
    LargeImage, NameCloudburst, SentenceLine, PlainLine, DashLine, RoleLine, AuthLine,
    FooterLine, <<>> }

LongPool == { <<"F","i","r","e"," ","S","t","r","i","k","e">>, <<"M","E","T","E","O","R"," ","S","H","O","W","E","R">>, <<"E","Q","U","I","P"," ","a"," ","B","l","a","d","e">> }

\* the numbered image line of ordinal n; the target of image 2 has an
\* upper-case scheme, so that its normalized form differs from the raw one
NumberedTarget(n) ==
    (IF n = 2 THEN <<"H","T","T","P">> ELSE <<"h","t","t","p">>) \o <<":","/","/","x","/">> \o <<Digits[n + 1]>> \o <<".","p","n","g">>
NumberedLine(n) == <<Digits[n + 1]>> \o <<"."," ","!","[","a","]","(">> \o NumberedTarget(n) \o <<")">>

MaxBody == 3
MaxLong == 5

OrdinalSets == {{1}, {2}, {1, 2}}

RECURSIVE SeqsUpTo(_, _)
SeqsUpTo(pool, n) ==
    IF n = 0 THEN {<<>>}
    ELSE LET shorter == SeqsUpTo(pool, n - 1) IN
         shorter \cup {Append(s, x) : s \in {t \in shorter : Len(t) = n - 1}, x \in pool}

NumberedLines(ords) == LET a == Ascending(ords) IN [k \in 1..Len(a) |-> NumberedLine(a[k])]

JettPrefix == <<<<"#"," ","J","e","t","t">>, <<"R","O","L","E">>, <<>>, <<"D","u","e","l","i","s","t">>, <<>>>>

\* the end-to-end scenario of the specification
JettScenario ==
    [pre |-> JettPrefix, heading |-> TRUE, ords |-> {1},
     body |-> <<NameCloudburst, SentenceLine, FooterLine>>]

FixedInputs == {
    JettScenario,
    [pre |-> JettPrefix, heading |-> FALSE, ords |-> {1}, body |-> <<LargeImage, NameCloudburst>>],
    [pre |-> <<FooterLine, <<"x"," ","#","#"," ","S","P","E","C","I","A","L"," ","A","B","I","L","I","T","I","E","S">>>>, heading |-> TRUE, ords |-> {1, 2},
     body |-> <<LargeImage, NameCloudburst, PlainLine, RiotLine, NameCloudburst, FooterLine>>],
    [pre |-> <<>>, heading |-> TRUE, ords |-> {},
     body |-> <<FooterLine, NumberedLine(1), LargeImage, NameCloudburst>>],
    [pre |-> <<>>, heading |-> TRUE, ords |-> {},
     body |-> <<LargeImage, NameCloudburst, <<"R","i","o","t">>, <<"s","e","e"," ","R","i","o","t"," ","G","a","m","e","s">>, NameCloudburst>>] }

AbilityInputs ==
    {[pre |-> <<>>, heading |-> TRUE, ords |-> o, body |-> b] :
        o \in OrdinalSets, b \in SeqsUpTo(BodyPool, MaxBody)}
    \cup {[pre |-> <<>>, heading |-> TRUE, ords |-> {1, 2}, body |-> <<LargeImage>> \o b] :
        b \in SeqsUpTo(LongPool, MaxLong)}
    \cup FixedInputs

InputLines(in) ==
    in.pre \o (IF in.heading THEN <<Heading>> ELSE <<>>) \o NumberedLines(in.ords) \o in.body

Render(in) == Join(InputLines(in), <<NL>>)

\* extractImages: image references and a plain link, one per line or all on
\* one line
TargetPlain == <<"h","t","t","p",":","/","/","x","/","1",".","p","n","g">>
TargetPadded == <<" ","h","t","t","p",":","/","/","x","/","1",".","p","n","g"," ">>
TargetUpper == <<"H","T","T","P",":","/","/","x","/","1",".","p","n","g">>
TargetSpace == <<"h","t","t","p",":","/","/","x","/","a"," ","b">>
ImageTargets == {TargetPlain, TargetPadded, TargetUpper, TargetSpace, <<>>}
LinkPiece == [image |-> FALSE, text |-> <<"[","l","]","(","h","t","t","p",":","/","/","x","/","l",")">>]
ImagePieces == {[image |-> TRUE, target |-> t] : t \in ImageTargets} \cup {LinkPiece}
PieceText(piece) == IF piece.image THEN <<"!","[","a","]","(">> \o piece.target \o <<")">> ELSE piece.text

MaxPieces == 3

ImageInputs ==
    {[sep |-> sp, pieces |-> ps] : sp \in {<<NL>>, <<" ">>}, ps \in SeqsUpTo(ImagePieces, MaxPieces)}

RenderPieces(in) == Join([k \in 1..Len(in.pieces) |-> PieceText(in.pieces[k])], in.sep)

\* extractRole: lines around a ROLE label
RolePool == {
    <<"R","O","L","E">>, <<" ","R","O","L","E">>, <<"R","O","L","E"," ">>, <<"R","O","L","E"," ","x">>, <<"D","u","e","l","i","s","t">>, <<" ","D","u","e","l","i","s","t"," ">>, <<" ">>, <<>> }

MaxRoleLines == 3

RoleInputs == SeqsUpTo(RolePool, MaxRoleLines)

\* cleanDescription: words joined by single spaces
WordPool == { <<"T","h","r","o","w","s">>, <<"c","l","o","u","d",".">>, <<"T","w","i","t","t","e","r">>, <<"R","i","o","t"," ","G","a","m","e","s">>, <<"[","a","]","(","u",")"," "," ","x">> }

MaxWords == 3

CleanInputs == SeqsUpTo(WordPool, MaxWords) \ {<<>>}

Idle ==
    /\ lines = <<>> /\ imageMap = <<>> /\ i = 0 /\ abilityIndex = 0
    /\ seenLargeImage = FALSE /\ abilities = <<>> /\ origins = <<>>
    /\ matches = <<>> /\ mi = 0 /\ images = <<>> /\ seen = {}
    /\ role = <<>> /\ desc = <<>> /\ pi = 0
    /\ last = "init"

-----------------------------------------------------------------------------
(* parseAbilities on a document                                             *)

Init ==
    /\ input \in AbilityInputs
    /\ markdown = Render(input)
    /\ pc = "parseAbilities"
    /\ Idle

Next == NoSection \/ Locate \/ WalkSkip \/ WalkPass \/ WalkSkipWord \/ WalkEmit \/ Return

Spec == Init /\ [][Next]_vars

(* extractImages on a document                                              *)

InitImages ==
    /\ input \in ImageInputs
    /\ markdown = RenderPieces(input)
    /\ pc = "extractImages"
    /\ Idle

NextImages == FindImages \/ ImageAppend \/ ImageSkip \/ ImageReturn

SpecImages == InitImages /\ [][NextImages]_vars

(* extractRole on a document                                                *)

InitRole ==
    /\ input \in RoleInputs
    /\ markdown = Join(input, <<NL>>)
    /\ pc = "extractRole"
    /\ Idle

NextRole == ExtractRole

SpecRole == InitRole /\ [][NextRole]_vars

(* cleanDescription on a description                                        *)

InitClean ==
    /\ input \in CleanInputs
    /\ markdown = Join(input, <<" ">>)
    /\ pc = "cleanDescription"
    /\ Idle

NextClean == CleanStart \/ CleanCut \/ CleanKeep \/ CleanReturn

SpecClean == InitClean /\ [][NextClean]_vars

-----------------------------------------------------------------------------
(* The document as lines, and the section window read off the lines.        *)

DocLines == InputLines(input)

\* the first line of doc holding the section heading (0: none)
HeadingIn(doc) ==
    LET hits == {k \in 1..Len(doc) : Contains(doc[k], Heading)} IN
    IF hits = {} THEN 0 ELSE Min(hits)

\* a line that begins with a boilerplate-start marker
IsFooterLine(l) == \E k \in 1..Len(FooterPatterns) : HasPrefix(l, Tail(FooterPatterns[k]))

\* the first footer line of doc after line h (one past the end: none)
FooterIn(doc, h) ==
    LET hits == {k \in (h + 1)..Len(doc) : IsFooterLine(doc[k])} IN
    IF hits = {} THEN Len(doc) + 1 ELSE Min(hits)

\* the heading line from the heading on, and the lines up to the footer line
WindowIn(doc, h, f) ==
    <<SubSeq(doc[h], Index(doc[h], Heading) + 1, Len(doc[h]))>> \o SubSeq(doc, h + 1, f - 1)

OrdinalsIn(window) ==
    {Atoi(AbilityImageAt(window[k], 0).num) :
        k \in {m \in 1..Len(window) : AbilityImageAt(window[m], 0).found}}

HeadingAt == HeadingIn(DocLines)
FooterAt == FooterIn(DocLines, HeadingAt)

-----------------------------------------------------------------------------
(* C1: a section made of the heading, k numbered image lines with ordinals  *)
(* 1..k, k pairs of an all-caps name line and a description line and an     *)
(* optional footer line yields exactly k sub-records, the j-th with the     *)
(* j-th name, the j-th description text and the normalized target of        *)
(* numbered image j.                                                        *)

IsPlainName(l) ==
    /\ Len(l) > 3 /\ Len(l) < 50 /\ Count(l, " ") <= 3
    /\ \A k \in 1..Len(l) : IsUpperLetter[l[k]] \/ l[k] = " "
    /\ l = TrimSpace(l)
    /\ ~IsSkipWord(l)

\* a line of prose: it holds a lower-case letter, no markup and no footer text
IsPlainDescription(l) ==
    /\ l # <<>> /\ l = TrimSpace(l)
    /\ \E k \in 1..Len(l) : ToUpperCh(l[k]) # l[k]
    /\ ~HasPrefix(l, <<"!">>) /\ ~HasPrefix(l, <<"-">>) /\ ~HasPrefix(l, <<"[">>)
    /\ ~IsFooterLine(l) /\ ~HitsFooter(l)
    /\ cleanDescription(l) = l

PairedSection(in, k) ==
    /\ in.heading
    /\ in.ords = 1..k
    /\ Len(in.body) \in {2 * k, 2 * k + 1}
    /\ \A j \in 1..k : IsPlainName(in.body[2 * j - 1]) /\ IsPlainDescription(in.body[2 * j])
    /\ Len(in.body) = 2 * k + 1 => IsFooterLine(in.body[2 * k + 1])

\* C1: at the return of parseAbilities a paired section of k pairs has given
\* exactly the k sub-records (name j, description j, normalized image j)
C1_PairedSectionYieldsPairs ==
    pc = "done" =>
        \A k \in 1..4 :
            PairedSection(input, k) =>
                /\ Len(abilities) = k
                /\ \A j \in 1..k :
                    abilities[j] = [name |-> input.body[2 * j - 1],
                                    description |-> input.body[2 * j],
                                    image |-> urlEncode(NumberedTarget(j))]

-----------------------------------------------------------------------------
\* C2: a record never has more than 4 sub-records, at any step of the walk
\* and in the result, and once the slot counter is 4 the walk takes no
\* further step, whatever lines remain
C2_AtMostFour ==
    /\ [](Len(abilities) <= 4 /\ abilityIndex = Len(abilities))
    /\ [][(pc = "walk" /\ abilityIndex >= 4) =>
            (pc' = "done" /\ abilities' = abilities)]_vars

\* the walk stopped at four sub-records with lines left unread
C2_Witness == pc = "done" /\ Len(abilities) = 4 /\ i < Len(lines)

-----------------------------------------------------------------------------
\* C3: the section window is the text from the first heading up to the first
\* footer line after it (the end of the document if there is none), and every
\* sub-record name, description line and numbered image comes from a line
\* before that footer line
C3_WindowStopsAtFooter ==
    (last = "locate" \/ origins # <<>>) =>
        LET doc == DocLines
            h == HeadingIn(doc)
            f == FooterIn(doc, h)
            window == WindowIn(doc, h, f)
        IN  /\ h > 0
            /\ last = "locate" => (lines = window /\ DOMAIN imageMap = OrdinalsIn(window))
            /\ \A a \in 1..Len(origins) :
                /\ h + origins[a].nameLine < f
                /\ \A j \in origins[a].descLines : h + j < f

\* a sub-record was returned from a document whose footer line is followed
\* by a line that reads like an ability name
C3_Witness ==
    /\ pc = "done" /\ HeadingAt > 0
    /\ Len(abilities) >= 1
    /\ \E k \in (FooterAt + 1)..Len(DocLines) : DocLines[k] = NameCloudburst

-----------------------------------------------------------------------------
UpperSkipWords == {ToUpper(skipWords[k]) : k \in 1..Len(skipWords)}

\* C4: no sub-record is named by a stop-list word (compared in upper case),
\* and a candidate line that is a stop-list word is passed over: the walk
\* moves to the next line, the slot counter and the result unchanged
C4_StopWordsNeverNames ==
    /\ [](\A a \in 1..Len(abilities) : ToUpper(abilities[a].name) \notin UpperSkipWords)
    /\ [][(/\ pc = "walk"
           /\ LoopGuard(i, abilityIndex, Len(lines))
           /\ IsCandidateName(seenLargeImage, CurrentLine)
           /\ ToUpper(CurrentLine) \in UpperSkipWords)
          => (i' = i + 1 /\ abilityIndex' = abilityIndex /\ abilities' = abilities)]_vars

\* a stop-list word in all caps, after the large image, was passed over
C4_Witness ==
    /\ pc = "walk" /\ last = "skipword" /\ seenLargeImage
    /\ TrimSpace(lines[i]) \in {RoleLine, AuthLine}

-----------------------------------------------------------------------------
(* C5: extractImages returns one entry per distinct non-empty trimmed raw   *)
(* target, in order of first occurrence; targets are told apart by their    *)
(* raw string, not by their normalized form.                                *)

\* the trimmed raw targets of the image references of the document, in order
RawTargets ==
    LET refs == SelectSeq(input.pieces, LAMBDA piece : piece.image) IN
    [k \in 1..Len(refs) |-> TrimSpace(refs[k].target)]

FirstOccurrences(raw) ==
    Ascending({k \in 1..Len(raw) : raw[k] # <<>> /\ \A m \in 1..(k - 1) : raw[m] # raw[k]})

\* C5: the result is the normalized form of each distinct non-empty trimmed
\* raw target, in order of first occurrence
C5_OnePerDistinctRawTarget ==
    pc = "done" =>
        LET first == FirstOccurrences(RawTargets) IN
        images = [j \in 1..Len(first) |-> urlEncode(RawTargets[first[j]])]

\* three references: a raw target twice, and another raw target with the
\* same normalized form; the result holds two equal entries
C5_Witness ==
    /\ pc = "done"
    /\ Len(matches) = 3 /\ Len(images) = 2
    /\ images[1] = images[2]
    /\ RawTargets[1] = RawTargets[2]

-----------------------------------------------------------------------------
(* C6: extractRole returns the trimmed next non-empty line after the first  *)
(* label line, or the empty string.                                         *)

\* a label line as the specification words it: ROLE with white space on either side
IsLabelLoose(l) == TrimSpace(l) = RoleLabel
\* a label line as amended: ROLE at the start of the line, white space after
IsLabelAtStart(l) == HasPrefix(l, RoleLabel) /\ TrimSpace(l) = RoleLabel

RoleAfter(ls, IsLabel(_)) ==
    LET labels == {k \in 1..Len(ls) : IsLabel(ls[k])} IN
    IF labels = {} THEN <<>>
    ELSE LET values == {j \in (Min(labels) + 1)..Len(ls) : TrimSpace(ls[j]) # <<>>} IN
         IF values = {} THEN <<>> ELSE TrimSpace(ls[Min(values)])

\* C6 as stated: the label line may have leading or trailing white space
C6_LabelWithAnyWhitespace == pc = "done" => role = RoleAfter(input, IsLabelLoose)

\* C6 as amended: the label line starts with ROLE and may have trailing
\* white space only; the result is the trimmed next non-empty line after the
\* first such line, or the empty string
C6_LabelAtLineStart == pc = "done" => role = RoleAfter(input, IsLabelAtStart)

\* a label with trailing white space, a blank line, then the value
C6_Witness ==
    /\ pc = "done"
    /\ Len(input) = 3
    /\ input[1] = <<"R","O","L","E"," ">> /\ TrimSpace(input[2]) = <<>> /\ input[3] = <<" ","D","u","e","l","i","s","t"," ">>
    /\ role = <<"D","u","e","l","i","s","t">>

-----------------------------------------------------------------------------
\* C7: the sub-record of slot s gets the normalized target stored under key
\* s+1 of the ordinal map when that key is present, and the empty string
\* exactly when it is absent, whatever the set of ordinals
C7_ImageByOrdinalKey ==
    \A s \in 1..Len(abilities) :
        abilities[s].image = (IF s \in DOMAIN imageMap THEN urlEncode(imageMap[s]) ELSE <<>>)

-----------------------------------------------------------------------------
\* title-cased as the specification words it: the first byte and the first byte of
\* every space-delimited word are upper-case letters
IsStrictTitleCase(l) ==
    /\ IsUpperLetter[l[1]]
    /\ \A k \in 1..Len(Fields(l)) : IsUpperLetter[Fields(l)[k][1]]

\* C8: every emitted name is a trimmed line of length > 3 and < 50 with at
\* most 3 spaces, found after an image line that follows the numbered images,
\* and is fully upper-case or title-cased
C8_NamesAreCapsOrTitleCase ==
    \A a \in 1..Len(abilities) :
        LET name == abilities[a].name IN
        /\ name = TrimSpace(name)
        /\ Len(name) > 3 /\ Len(name) < 50 /\ Count(name, " ") <= 3
        /\ \E j \in NumberedImagesEnd(lines)..(origins[a].nameLine - 1) :
                HasPrefix(TrimSpace(lines[j + 1]), <<"!">>)
        /\ (ToUpper(name) = name \/ IsStrictTitleCase(name))

-----------------------------------------------------------------------------
\* C9: the description returned by cleanDescription holds none of the footer
\* fragments
C9_NoFooterFragmentLeft ==
    pc = "done" => \A k \in 1..Len(CleanFooterPatterns) : ~Contains(desc, CleanFooterPatterns[k])

-----------------------------------------------------------------------------
\* C10: no line of the section is both appended to the description of a
\* sub-record and emitted as the name of a sub-record
C10_NoLineIsNameAndDescription ==
    \A a \in 1..Len(origins) : \A b \in 1..Len(origins) :
        origins[a].nameLine \notin origins[b].descLines

====
